---- MODULE Spec2Model ----
(***************************************************************************)
(* A model of python_env_secrets.manager: the EnvSecretsManager facade,   *)
(* the key=value parser (_read_dotenv), the linking-file writer           *)
(* (_upsert_env_key) and the secrets-file writer (_write_secrets); and of *)
(* python_env_secrets.cli, the command line on top of it.                 *)
(*                                                                         *)
(* Text is a sequence of atoms.  The atoms the code tells apart are kept   *)
(* as single characters: space, line feed, carriage return, '=', '#' and   *)
(* the two quote characters.  Every other atom ("K", "hello", "export",    *)
(* "u1", ...) stands for a non-empty run of ordinary characters, none of   *)
(* which is one of the former.  No text of the model holds two ordinary    *)
(* atoms side by side, so equal strings are equal sequences.               *)
(*                                                                         *)
(* An optional value (Python's None or a value) is a sequence of length 0  *)
(* or 1: None is << >> and Some(x) is << x >>.                             *)
(***************************************************************************)
EXTENDS Integers, Sequences, FiniteSets, TLC

VARIABLES
    system,     \* platform.system() of the host
    linkFile,   \* project directory -> bytes of its .env file (existing files only)
    secFile,    \* identifier -> [data, mode] of <base>/<identifier>/.secrets (existing files only)
    secDirs,    \* the identifiers whose directory <base>/<identifier> exists
    environ,    \* os.environ: key -> value (present keys only)
    mgr,        \* manager -> [project_dir, env_secrets_id, secrets_path]
    frame,      \* manager -> the local variables of the call of set that is in
                \* progress on it, where it has got to; None between calls
    last        \* the last call made on a manager: its name, arguments and outcome

vars == <<system, linkFile, secFile, secDirs, environ, mgr, frame, last>>

None == << >>
Some(x) == << x >>

\* ---------------------------------------------------------------- text

SP == " "
LF == "\n"
CR == "\r"
EQ == "="
HASH == "#"
SQ == "'"
DQ == "\""

\* str.strip() removes leading and trailing whitespace
IsSpace(c) == c \in {SP, LF, CR}

RECURSIVE LStrip(_)
LStrip(s) == IF s # << >> /\ IsSpace(Head(s)) THEN LStrip(Tail(s)) ELSE s

RECURSIVE RStrip(_)
RStrip(s) == IF s # << >> /\ IsSpace(s[Len(s)]) THEN RStrip(SubSeq(s, 1, Len(s) - 1)) ELSE s

strip(s) == RStrip(LStrip(s))

Contains(s, c) == \E i \in 1..Len(s) : s[i] = c

startswith(s, p) == Len(s) >= Len(p) /\ SubSeq(s, 1, Len(p)) = p

\* index of the first occurrence of c in s at or after i (c occurs there)
RECURSIVE IndexFrom(_, _, _)
IndexFrom(s, c, i) == IF s[i] = c THEN i ELSE IndexFrom(s, c, i + 1)

\* index of the first occurrence of c in s (c occurs in s)
IndexOf(s, c) == IndexFrom(s, c, 1)

\* s.split(c, 1) for a string s that holds c: the parts before and after the first c
splitFirst(s, c) ==
    LET i == IndexOf(s, c) IN <<SubSeq(s, 1, i - 1), SubSeq(s, i + 1, Len(s))>>

RECURSIVE Concat(_)
Concat(ss) == IF ss = << >> THEN << >> ELSE Head(ss) \o Concat(Tail(ss))

\* ------------------------------------------------- text-mode file I/O

\* open(path) for reading, newline=None: "\r\n" and a lone "\r" are read as "\n"
RECURSIVE readText(_)
readText(bytes) ==
    IF ~Contains(bytes, CR) THEN bytes
    ELSE IF Head(bytes) = CR
         THEN IF Len(bytes) >= 2 /\ bytes[2] = LF
              THEN <<LF>> \o readText(SubSeq(bytes, 3, Len(bytes)))
              ELSE <<LF>> \o readText(Tail(bytes))
         ELSE <<Head(bytes)>> \o readText(Tail(bytes))

linesep(sys) == IF sys = "Windows" THEN <<CR, LF>> ELSE <<LF>>

\* open(path, "w"), newline=None: every "\n" written becomes os.linesep
RECURSIVE writeText(_, _)
writeText(text, sys) ==
    IF linesep(sys) = <<LF>> \/ ~Contains(text, LF) THEN text
    ELSE (IF Head(text) = LF THEN linesep(sys) ELSE <<Head(text)>>)
         \o writeText(Tail(text), sys)

\* "for raw_line in fh": the lines of the text, each with its "\n" but
\* possibly the last
RECURSIVE readlines(_)
readlines(text) ==
    IF text = << >> THEN << >>
    ELSE IF Contains(text, LF)
         THEN LET i == IndexOf(text, LF)
              IN  <<SubSeq(text, 1, i)>> \o readlines(SubSeq(text, i + 1, Len(text)))
         ELSE <<text>>

\* ------------------------------------------------------------- dicts
\* A Python dict is a sequence of <<key, value>> pairs with distinct keys,
\* in insertion order.

DictKeys(d) == {d[i][1] : i \in 1..Len(d)}

DictHas(d, k) == \E i \in 1..Len(d) : d[i][1] = k

\* d.get(k)
DictGet(d, k) ==
    IF DictHas(d, k) THEN Some(d[CHOOSE i \in 1..Len(d) : d[i][1] = k][2]) ELSE None

\* d[k] = v: an existing key keeps its place
DictSet(d, k, v) ==
    IF DictHas(d, k)
    THEN [i \in 1..Len(d) |-> IF d[i][1] = k THEN <<k, v>> ELSE d[i]]
    ELSE Append(d, <<k, v>>)

\* a faulty del d[k]: d.popitem(), which removes the last entry whatever its key
DictDel_popitem(d, k) == SubSeq(d, 1, Len(d) - 1)

\* del d[k]
DictDel(d, k) == SelectSeq(d, LAMBDA e : e[1] # k)

\* ------------------------------------------------------ _read_dotenv

EXPORT_PREFIX == <<"export", SP>>

\* the line with a leading "export " removed
dropExport(line) ==
    IF startswith(line, EXPORT_PREFIX) THEN SubSeq(line, Len(EXPORT_PREFIX) + 1, Len(line)) ELSE line

\* a faulty strip of quotes: value.strip('"'), which takes every double quote
\* off both ends
RECURSIVE stripQuotes_greedy(_)
stripQuotes_greedy(value) ==
    IF value # << >> /\ Head(value) = DQ THEN stripQuotes_greedy(Tail(value))
    ELSE IF value # << >> /\ value[Len(value)] = DQ
         THEN stripQuotes_greedy(SubSeq(value, 1, Len(value) - 1))
         ELSE value

\* "Strip matching quotes"
stripQuotes(value) ==
    IF Len(value) >= 2 /\ value[1] \in {DQ, SQ} /\ value[1] = value[Len(value)]
    THEN SubSeq(value, 2, Len(value) - 1)
    ELSE value

\* a faulty loop body: result.setdefault(key, value), which keeps the value
\* of the first line for a key
parseLine_firstWins(result, raw_line) ==
    LET stripped == strip(raw_line)
        line == dropExport(stripped)
    IN  IF stripped = << >> \/ startswith(stripped, <<HASH>>) THEN result
        ELSE IF ~Contains(line, EQ) THEN result
        ELSE LET kv == splitFirst(line, EQ)
             IN  IF DictHas(result, strip(kv[1])) THEN result
                 ELSE DictSet(result, strip(kv[1]), stripQuotes(strip(kv[2])))

\* the body of the loop over the file's lines: result after raw_line
parseLine(result, raw_line) ==
    LET stripped == strip(raw_line)
        line == dropExport(stripped)
    IN  IF stripped = << >> \/ startswith(stripped, <<HASH>>) THEN result
        ELSE IF ~Contains(line, EQ) THEN result
        ELSE LET kv == splitFirst(line, EQ)
             IN  DictSet(result, strip(kv[1]), stripQuotes(strip(kv[2])))

RECURSIVE parseLines(_, _)
parseLines(result, lines) ==
    IF lines = << >> THEN result
    ELSE parseLines(parseLine(result, Head(lines)), Tail(lines))

\* _read_dotenv(path) where fs holds the existing files' bytes
parseBytes(bytes) == parseLines(<< >>, readlines(readText(bytes)))

\* ---------------------------------------------------- _write_secrets

\* a faulty test for quoting: '#' is left out of the characters
needsQuotes_withoutHash(v) == \E ch \in {SP, EQ, SQ, DQ} : Contains(v, ch)

\* "Quote values that contain problematic characters"
needsQuotes(v) == \E ch \in {SP, EQ, HASH, SQ, DQ} : Contains(v, ch)

quoted(v) == IF needsQuotes(v) THEN <<DQ>> \o v \o <<DQ>> ELSE v

\* the "{k}={v}\n" line of one entry
entryLine(e) == e[1] \o <<EQ>> \o quoted(e[2]) \o <<LF>>

\* the comment lines and the blank line that open the file
header(project_dir, env_secrets_id) ==
    <<HASH, SP, "Python", SP, "Env", SP, "Secrets", LF>>
    \o <<HASH, SP, "Do", SP, "not", SP, "share", SP, "or", SP, "commit", SP, "this", SP,
         "file", SP, "to", SP, "source", SP, "control.", LF>>
    \o <<HASH, SP, "Project:", SP>> \o project_dir \o <<LF>>
    \o (IF env_secrets_id # << >> THEN <<HASH, SP, "ID:", SP>> \o env_secrets_id \o <<LF>> ELSE << >>)
    \o <<LF>>

\* the text _write_secrets writes for the dict secrets
secretsText(secrets, project_dir, env_secrets_id) ==
    header(project_dir, env_secrets_id)
    \o Concat([i \in 1..Len(secrets) |-> entryLine(secrets[i])])

IsPosix(sys) == sys \in {"Linux", "Darwin"}

\* the file's mode after the write: 0o600 on Linux and Darwin; elsewhere the
\* mode it had, or the default mode of a new file
modeAfterWrite(fs, path, sys) ==
    IF IsPosix(sys) THEN "0600"
    ELSE IF path \in DOMAIN fs THEN fs[path].mode ELSE "default"

\* the secrets files after _write_secrets(path, secrets, project_dir, env_secrets_id)
_write_secrets(fs, path, secrets, project_dir, env_secrets_id, sys) ==
    [p \in DOMAIN fs \cup {path} |->
        IF p = path
        THEN [data |-> writeText(secretsText(secrets, project_dir, env_secrets_id), sys),
              mode |-> modeAfterWrite(fs, path, sys)]
        ELSE fs[p]]

\* --------------------------------------------------- _upsert_env_key

\* the condition under which _upsert_env_key replaces raw_line
isKeyLine(raw_line, key) ==
    LET stripped == strip(raw_line)
    IN  /\ stripped # << >>
        /\ ~startswith(stripped, <<HASH>>)
        /\ Contains(stripped, EQ)
        /\ strip(splitFirst(stripped, EQ)[1]) = key

\* a faulty _upsert_env_key: the "if not replaced" branch is never taken, so a
\* key the file lacks is not appended
upsertLines_neverAppends(old, key, value) ==
    [i \in 1..Len(old) |-> IF isKeyLine(old[i], key) THEN key \o <<EQ>> \o value \o <<LF>> ELSE old[i]]

\* a faulty _upsert_env_key: the line is appended whether or not a line of
\* the file was replaced
upsertLines_alwaysAppends(old, key, value) ==
    LET new == key \o <<EQ>> \o value \o <<LF>>
        lines == [i \in 1..Len(old) |-> IF isKeyLine(old[i], key) THEN new ELSE old[i]]
    IN  IF lines # << >> /\ lines[Len(lines)][Len(lines[Len(lines)])] # LF
        THEN lines \o <<<<LF>>, new>>
        ELSE Append(lines, new)

\* the lines _upsert_env_key writes, given the lines it read
upsertLines(old, key, value) ==
    LET new == key \o <<EQ>> \o value \o <<LF>>
        lines == [i \in 1..Len(old) |-> IF isKeyLine(old[i], key) THEN new ELSE old[i]]
        replaced == \E i \in 1..Len(old) : isKeyLine(old[i], key)
    IN  IF replaced THEN lines
        ELSE IF lines # << >> /\ lines[Len(lines)][Len(lines[Len(lines)])] # LF
             THEN lines \o <<<<LF>>, new>>
             ELSE Append(lines, new)

\* the .env files after _upsert_env_key(env_path, key, value)
_upsert_env_key(files, env_path, key, value, sys) ==
    LET old == IF env_path \in DOMAIN files THEN readlines(readText(files[env_path])) ELSE << >>
    IN  [p \in DOMAIN files \cup {env_path} |->
            IF p = env_path THEN writeText(Concat(upsertLines(old, key, value)), sys)
            ELSE files[p]]

\* _read_dotenv(path): an absent file reads as the empty dict
_read_dotenv(files, path) == IF path \in DOMAIN files THEN parseBytes(files[path]) ELSE << >>

\* the same for a secrets file, whose record holds the bytes and the mode
readSecrets(fs, path) == IF path \in DOMAIN fs THEN parseBytes(fs[path].data) ELSE << >>

\* ------------------------------------------------- EnvSecretsManager

ENV_SECRETS_ID_KEY == <<"ENV_SECRETS_ID">>

\* the values str(uuid.uuid4()) may return
Uuids == {<<"u1">>, <<"u2">>}

\* a manager as __init__ leaves it with auto_init=False
newManager(project_dir) ==
    [project_dir |-> project_dir, env_secrets_id |-> None, secrets_path |-> None]

\* the test of _ensure_initialised: TRUE when it raises
notInitialised(self) == self.secrets_path = None \/ self.env_secrets_id = None

\* what a call leaves in "last"
call(op, m, args, ret, raised) ==
    [op |-> op, m |-> m, args |-> args, ret |-> ret, raised |-> raised]

\* a faulty load: os.environ.setdefault(key, value), which keeps a value
\* os.environ already holds
environAfterLoad_setdefault(env, secrets) ==
    [k \in DOMAIN env \cup DictKeys(secrets) |->
        IF k \in DOMAIN env THEN env[k] ELSE DictGet(secrets, k)[1]]

\* a faulty load: os.environ is made a copy of the file's mapping, which drops
\* the entries whose key the file does not hold
environAfterLoad_replaces(env, secrets) ==
    [k \in DictKeys(secrets) |-> DictGet(secrets, k)[1]]

\* "for key, value in secrets.items(): os.environ[key] = value"
environAfterLoad(env, secrets) ==
    [k \in DOMAIN env \cup DictKeys(secrets) |->
        IF DictHas(secrets, k) THEN DictGet(secrets, k)[1] ELSE env[k]]

\* os.environ[key] = value
environSet(env, key, value) ==
    [k \in DOMAIN env \cup {key} |-> IF k = key THEN value ELSE env[k]]

\* a faulty pop: the removal from os.environ is left out
environPop_keepsAll(env, keys) == env

\* os.environ.pop(key, None) for every key of keys
environPop(env, keys) == [k \in DOMAIN env \ keys |-> env[k]]

\* the path separator and the name a directory has for itself
SLASH == "/"
DOT == "."

\* the components pathlib keeps of a path: the parts between the separators,
\* without the empty ones and the "." ones
RECURSIVE pathParts(_)
pathParts(text) ==
    IF text = << >> THEN << >>
    ELSE LET cut == Contains(text, SLASH)
             first == IF cut THEN splitFirst(text, SLASH)[1] ELSE text
             rest == IF cut THEN splitFirst(text, SLASH)[2] ELSE << >>
         IN  (IF first = << >> \/ first = <<DOT>> THEN << >> ELSE <<first>>) \o pathParts(rest)

\* the components with a separator between them
RECURSIVE joinParts(_)
joinParts(parts) ==
    IF parts = << >> THEN << >>
    ELSE IF Len(parts) = 1 THEN Head(parts)
    ELSE Head(parts) \o <<SLASH>> \o joinParts(Tail(parts))

\* secrets_dir = self.secrets_base_dir / self.env_secrets_id, as the path of
\* the directory below secrets_base_dir (an identifier that starts with the
\* separator is an absolute path, which takes the place of secrets_base_dir);
\* the file .secrets of this directory is the manager's secrets file
secretsDir(env_secrets_id) ==
    (IF env_secrets_id # << >> /\ Head(env_secrets_id) = SLASH THEN <<SLASH>> ELSE << >>)
    \o joinParts(pathParts(env_secrets_id))

\* the identifier init settles on: the one of the linking file, or the new one
resolvedId(m, new_uuid) ==
    LET env_vars == _read_dotenv(linkFile, mgr[m].project_dir)
    IN  IF DictHas(env_vars, ENV_SECRETS_ID_KEY)
        THEN DictGet(env_vars, ENV_SECRETS_ID_KEY)[1]
        ELSE new_uuid

\* a faulty init: the file is written without the test "if not
\* self.secrets_path.exists()", which empties a file that holds secrets
secFileAfterInit_alwaysWrites(m, id) ==
    _write_secrets(secFile, secretsDir(id), << >>, mgr[m].project_dir, id, system)

\* the secrets files once init has created the file if it was absent
secFileAfterInit(m, id) ==
    IF secretsDir(id) \in DOMAIN secFile THEN secFile
    ELSE _write_secrets(secFile, secretsDir(id), << >>, mgr[m].project_dir, id, system)

\* a faulty init: _upsert_env_key is called whether or not the .env file
\* holds an identifier
init_alwaysUpserts(m, new_uuid) ==
    LET self == mgr[m]
        id == resolvedId(m, new_uuid)
        fs == secFileAfterInit(m, id)
    IN  /\ linkFile' = _upsert_env_key(linkFile, self.project_dir, ENV_SECRETS_ID_KEY, id, system)
        /\ secDirs' = secDirs \cup {secretsDir(id)}
        /\ secFile' = fs
        /\ mgr' = [mgr EXCEPT ![m].env_secrets_id = Some(id), ![m].secrets_path = Some(secretsDir(id))]
        /\ environ' = environAfterLoad(environ, readSecrets(fs, secretsDir(id)))
        /\ last' = call("init", m, << >>, id, "none")
        /\ UNCHANGED <<system, frame>>

\* EnvSecretsManager.init, where uuid4() returns new_uuid if it is called
init(m, new_uuid) ==
    LET self == mgr[m]
        env_vars == _read_dotenv(linkFile, self.project_dir)
        id == resolvedId(m, new_uuid)
        fs == secFileAfterInit(m, id)
    IN  /\ linkFile' = IF DictHas(env_vars, ENV_SECRETS_ID_KEY) THEN linkFile
                       ELSE _upsert_env_key(linkFile, self.project_dir, ENV_SECRETS_ID_KEY, id, system)
        /\ secDirs' = secDirs \cup {secretsDir(id)}
        /\ secFile' = fs
        /\ mgr' = [mgr EXCEPT ![m].env_secrets_id = Some(id), ![m].secrets_path = Some(secretsDir(id))]
        /\ environ' = environAfterLoad(environ, readSecrets(fs, secretsDir(id)))
        /\ last' = call("init", m, << >>, id, "none")
        /\ UNCHANGED <<system, frame>>

\* a faulty guard: without the call of _ensure_initialised the method goes on
\* to its "assert self.secrets_path is not None", which raises AssertionError
raiseNotInitialised_assertOnly(op, m, args) ==
    /\ last' = call(op, m, args, None, "AssertionError")
    /\ UNCHANGED <<system, linkFile, secFile, secDirs, environ, mgr, frame>>

\* a call that fails in _ensure_initialised
raiseNotInitialised(op, m, args) ==
    /\ last' = call(op, m, args, None, "RuntimeError")
    /\ UNCHANGED <<system, linkFile, secFile, secDirs, environ, mgr, frame>>

\* EnvSecretsManager.load
load(m) ==
    IF notInitialised(mgr[m]) THEN raiseNotInitialised("load", m, << >>)
    ELSE LET secrets == readSecrets(secFile, mgr[m].secrets_path[1])
         IN  /\ environ' = environAfterLoad(environ, secrets)
             /\ last' = call("load", m, << >>, secrets, "none")
             /\ UNCHANGED <<system, linkFile, secFile, secDirs, mgr, frame>>

\* a faulty set: it ends with self.load(), which puts every entry of the
\* file into os.environ
set_reloads(m, key, value) ==
    IF notInitialised(mgr[m]) THEN raiseNotInitialised("set", m, <<key, value>>)
    ELSE LET self == mgr[m]
             path == self.secrets_path[1]
             secrets == DictSet(readSecrets(secFile, path), key, value)
         IN  /\ secFile' = _write_secrets(secFile, path, secrets, self.project_dir,
                                          self.env_secrets_id[1], system)
             /\ environ' = environAfterLoad(environ, secrets)
             /\ last' = call("set", m, <<key, value>>, None, "none")
             /\ UNCHANGED <<system, linkFile, secDirs, mgr, frame>>

\* EnvSecretsManager.set
set(m, key, value) ==
    IF notInitialised(mgr[m]) THEN raiseNotInitialised("set", m, <<key, value>>)
    ELSE LET self == mgr[m]
             path == self.secrets_path[1]
             secrets == DictSet(readSecrets(secFile, path), key, value)
         IN  /\ secFile' = _write_secrets(secFile, path, secrets, self.project_dir,
                                          self.env_secrets_id[1], system)
             /\ environ' = environSet(environ, key, value)
             /\ last' = call("set", m, <<key, value>>, None, "none")
             /\ UNCHANGED <<system, linkFile, secDirs, mgr, frame>>

\* a faulty get: the value comes from os.environ, the copy that set and load
\* left in the process, and from the file only when os.environ has none
get_fromEnviron(m, key) ==
    IF notInitialised(mgr[m]) THEN raiseNotInitialised("get", m, <<key>>)
    ELSE /\ last' = call("get", m, <<key>>,
                         IF key \in DOMAIN environ THEN Some(environ[key])
                         ELSE DictGet(readSecrets(secFile, mgr[m].secrets_path[1]), key),
                         "none")
         /\ UNCHANGED <<system, linkFile, secFile, secDirs, environ, mgr, frame>>

\* a faulty get: "return self.load().get(key)", which writes the file's
\* entries into os.environ on the way
get_loads(m, key) ==
    IF notInitialised(mgr[m]) THEN raiseNotInitialised("get", m, <<key>>)
    ELSE LET secrets == readSecrets(secFile, mgr[m].secrets_path[1])
         IN  /\ environ' = environAfterLoad(environ, secrets)
             /\ last' = call("get", m, <<key>>, DictGet(secrets, key), "none")
             /\ UNCHANGED <<system, linkFile, secFile, secDirs, mgr, frame>>

\* EnvSecretsManager.get
get(m, key) ==
    IF notInitialised(mgr[m]) THEN raiseNotInitialised("get", m, <<key>>)
    ELSE /\ last' = call("get", m, <<key>>,
                         DictGet(readSecrets(secFile, mgr[m].secrets_path[1]), key), "none")
         /\ UNCHANGED <<system, linkFile, secFile, secDirs, environ, mgr, frame>>

\* a faulty delete: os.environ.pop(key, None) runs before the test of
\* "key not in secrets"
delete_popsFirst(m, key) ==
    IF notInitialised(mgr[m]) THEN raiseNotInitialised("delete", m, <<key>>)
    ELSE LET self == mgr[m]
             path == self.secrets_path[1]
             secrets == readSecrets(secFile, path)
         IN  /\ environ' = environPop(environ, {key})
             /\ IF ~DictHas(secrets, key)
                THEN /\ last' = call("delete", m, <<key>>, FALSE, "none")
                     /\ UNCHANGED <<system, linkFile, secFile, secDirs, mgr, frame>>
                ELSE /\ secFile' = _write_secrets(secFile, path, DictDel(secrets, key),
                                                  self.project_dir, self.env_secrets_id[1], system)
                     /\ last' = call("delete", m, <<key>>, TRUE, "none")
                     /\ UNCHANGED <<system, linkFile, secDirs, mgr, frame>>

\* EnvSecretsManager.delete
delete(m, key) ==
    IF notInitialised(mgr[m]) THEN raiseNotInitialised("delete", m, <<key>>)
    ELSE LET self == mgr[m]
             path == self.secrets_path[1]
             secrets == readSecrets(secFile, path)
         IN  IF ~DictHas(secrets, key)
             THEN /\ last' = call("delete", m, <<key>>, FALSE, "none")
                  /\ UNCHANGED <<system, linkFile, secFile, secDirs, environ, mgr, frame>>
             ELSE /\ secFile' = _write_secrets(secFile, path, DictDel(secrets, key),
                                               self.project_dir, self.env_secrets_id[1], system)
                  /\ environ' = environPop(environ, {key})
                  /\ last' = call("delete", m, <<key>>, TRUE, "none")
                  /\ UNCHANGED <<system, linkFile, secDirs, mgr, frame>>

\* EnvSecretsManager.clear
clear(m) ==
    IF notInitialised(mgr[m]) THEN raiseNotInitialised("clear", m, << >>)
    ELSE LET self == mgr[m]
             path == self.secrets_path[1]
             secrets == readSecrets(secFile, path)
         IN  /\ environ' = environPop(environ, DictKeys(secrets))
             /\ secFile' = _write_secrets(secFile, path, << >>, self.project_dir,
                                          self.env_secrets_id[1], system)
             /\ last' = call("clear", m, << >>, Len(secrets), "none")
             /\ UNCHANGED <<system, linkFile, secDirs, mgr, frame>>

\* EnvSecretsManager.list
list(m) ==
    IF notInitialised(mgr[m]) THEN raiseNotInitialised("list", m, << >>)
    ELSE /\ last' = call("list", m, << >>, readSecrets(secFile, mgr[m].secrets_path[1]), "none")
         /\ UNCHANGED <<system, linkFile, secFile, secDirs, environ, mgr, frame>>

\* a faulty info: it starts with the call of _ensure_initialised, as the
\* other methods do
info_guarded(m) ==
    IF notInitialised(mgr[m]) THEN raiseNotInitialised("info", m, << >>)
    ELSE /\ last' = call("info", m, << >>,
                         [project_dir |-> mgr[m].project_dir,
                          env_file_exists |-> mgr[m].project_dir \in DOMAIN linkFile,
                          env_secrets_id |-> mgr[m].env_secrets_id,
                          secrets_file |-> mgr[m].secrets_path,
                          secrets_file_exists |-> mgr[m].secrets_path[1] \in DOMAIN secFile,
                          secrets_count |-> Len(readSecrets(secFile, mgr[m].secrets_path[1]))],
                         "none")
         /\ UNCHANGED <<system, linkFile, secFile, secDirs, environ, mgr, frame>>

\* EnvSecretsManager.info: it calls list() only when secrets_path is set,
\* so it does not raise on a manager that was never initialised
info(m) ==
    LET self == mgr[m]
        secrets == IF self.secrets_path # None THEN readSecrets(secFile, self.secrets_path[1]) ELSE << >>
    IN  /\ last' = call("info", m, << >>,
                        [project_dir |-> self.project_dir,
                         env_file_exists |-> self.project_dir \in DOMAIN linkFile,
                         env_secrets_id |-> self.env_secrets_id,
                         secrets_file |-> self.secrets_path,
                         secrets_file_exists |-> IF self.secrets_path # None
                                                 THEN self.secrets_path[1] \in DOMAIN secFile
                                                 ELSE FALSE,
                         secrets_count |-> Len(secrets)],
                        "none")
        /\ UNCHANGED <<system, linkFile, secFile, secDirs, environ, mgr, frame>>

\* ------------------------------------------------------- environment
\* What the rest of the process and the user do between two calls.

\* the user appends a line to a secrets file with an editor
handEdit(id, line) ==
    /\ id \in DOMAIN secFile
    /\ secFile' = [secFile EXCEPT ![id].data = @ \o line]
    /\ last' = call("hand_edit", None, <<id, line>>, None, "none")
    /\ UNCHANGED <<system, linkFile, secDirs, environ, mgr, frame>>

\* other code of the process sets an environment variable
otherSetenv(key, value) ==
    /\ environ' = environSet(environ, key, value)
    /\ last' = call("setenv", None, <<key, value>>, None, "none")
    /\ UNCHANGED <<system, linkFile, secFile, secDirs, mgr, frame>>

\* other code of the process removes an environment variable, as the tests do
otherUnsetenv(key) ==
    /\ key \in DOMAIN environ
    /\ environ' = environPop(environ, {key})
    /\ last' = call("unsetenv", None, <<key>>, None, "none")
    /\ UNCHANGED <<system, linkFile, secFile, secDirs, mgr, frame>>

\* -------------------------------------------------------------- cli
\* python_env_secrets/cli.py: "from .manager import UserSecretsManager" at
\* the top of the module, then main(argv).

\* the names that manager.py binds at module level
ManagerNames ==
    {"EnvSecretsManager", "_secrets_base_dir", "_read_dotenv", "_upsert_env_key",
     "_write_secrets", "logger"}

\* the attributes that EnvSecretsManager.__init__ sets
ManagerAttributes ==
    {"project_dir", "env_file_path", "secrets_base_dir", "env_secrets_id", "secrets_path"}

\* the keys of the dictionary that EnvSecretsManager.info returns
InfoKeys ==
    {"project_dir", "env_file", "env_file_exists", "env_secrets_id", "secrets_base_dir",
     "secrets_file", "secrets_file_exists", "secrets_count"}

\* the class that cli.py imports from .manager, the attribute that its branch
\* for init reads from the manager, the key that its branch for info reads
\* from the dictionary of info()
CliImport == "UserSecretsManager"
CliIdAttribute == "user_secrets_id"
CliInfoKeys == {"project_dir", "env_file", "env_file_exists", "user_secrets_id",
                "secrets_file", "secrets_count"}

\* the exit status of the process that ran the call c: the value main
\* returned, or 1 when an exception ended the interpreter
exitStatus(c) == IF c.raised = "none" THEN c.ret ELSE 1

\* the import of python_env_secrets.cli followed by main(argv), with the
\* manager object of the call held in slot m; argv holds the subcommand and
\* its arguments, and uuid4() returns new_uuid if it is called
cli_main(m, new_uuid, argv) ==
    LET self == mgr[m]
        found == DictHas(_read_dotenv(linkFile, self.project_dir), ENV_SECRETS_ID_KEY)
        id == resolvedId(m, new_uuid)
        fs == secFileAfterInit(m, id)
        secrets == readSecrets(fs, secretsDir(id))
        env == environAfterLoad(environ, secrets)
        done(ret, raised) == last' = call("cli", m, argv, ret, raised)
        rewrite(new) == _write_secrets(fs, secretsDir(id), new, self.project_dir, id, system)
    IN  /\ UNCHANGED <<system, mgr, frame>>
        /\ IF CliImport \notin ManagerNames
           THEN /\ done(None, "ImportError")
                /\ UNCHANGED <<linkFile, secFile, secDirs, environ>>
           ELSE IF argv = << >>
           THEN /\ done(0, "none")
                /\ UNCHANGED <<linkFile, secFile, secDirs, environ>>
           ELSE /\ linkFile' = IF found THEN linkFile
                               ELSE _upsert_env_key(linkFile, self.project_dir,
                                                    ENV_SECRETS_ID_KEY, id, system)
                /\ secDirs' = secDirs \cup {secretsDir(id)}
                /\ CASE argv[1] = <<"init">> ->
                          /\ secFile' = fs /\ environ' = env
                          /\ IF CliIdAttribute \in ManagerAttributes
                             THEN done(0, "none") ELSE done(None, "AttributeError")
                     [] argv[1] = <<"set">> ->
                          /\ secFile' = rewrite(DictSet(secrets, argv[2], argv[3]))
                          /\ environ' = environSet(env, argv[2], argv[3])
                          /\ done(0, "none")
                     [] argv[1] = <<"get">> ->
                          /\ secFile' = fs /\ environ' = env
                          /\ done(IF DictGet(secrets, argv[2]) = None THEN 1 ELSE 0, "none")
                     [] argv[1] = <<"list">> ->
                          /\ secFile' = fs /\ environ' = env
                          /\ done(0, "none")
                     [] argv[1] = <<"delete">> ->
                          IF DictHas(secrets, argv[2])
                          THEN /\ secFile' = rewrite(DictDel(secrets, argv[2]))
                               /\ environ' = environPop(env, {argv[2]})
                               /\ done(0, "none")
                          ELSE /\ secFile' = fs /\ environ' = env
                               /\ done(1, "none")
                     [] argv[1] = <<"clear">> ->
                          /\ secFile' = rewrite(<< >>)
                          /\ environ' = environPop(env, DictKeys(secrets))
                          /\ done(0, "none")
                     [] argv[1] = <<"info">> ->
                          /\ secFile' = fs /\ environ' = env
                          /\ IF CliInfoKeys \subseteq InfoKeys
                             THEN done(0, "none") ELSE done(None, "KeyError")

\* -------------------------------------------------- filesystem errors
\* The calls that end in an OSError raised by the filesystem: a file that
\* cannot be read or opened, a write that fails when the disk is full, a chmod
\* that is refused.

\* the prefixes of bytes that end where a line ends: what a write that failed
\* part-way may have put into the file that open(path, "w") had emptied
linePrefixes(bytes) ==
    {SubSeq(bytes, 1, i) : i \in {0} \cup {j \in 1..(Len(bytes) - 1) : bytes[j] = LF}}

\* the mode of the file at path once open(path, "w") has opened or created it
modeAfterOpen(fs, path) == IF path \in DOMAIN fs THEN fs[path].mode ELSE "default"

\* where _write_secrets may raise: in mkdir or open, before the file is
\* touched; in a write or in the flush at close, after open has emptied the
\* file; in chmod, after the file is written
WriteFaults == {"open", "write", "chmod"}

\* the secrets files that a call of _write_secrets which raises at fault may leave
_write_secrets_raises(fs, path, secrets, project_dir, env_secrets_id, sys, fault) ==
    LET bytes == writeText(secretsText(secrets, project_dir, env_secrets_id), sys)
        with(data) == [p \in DOMAIN fs \cup {path} |->
                          IF p = path THEN [data |-> data, mode |-> modeAfterOpen(fs, path)]
                          ELSE fs[p]]
    IN  CASE fault = "open" -> {fs}
          [] fault = "write" -> {with(data) : data \in linePrefixes(bytes)}
          [] fault = "chmod" -> IF IsPosix(sys) THEN {with(bytes)} ELSE {}

\* the .env files that a call of _upsert_env_key which raises may leave
_upsert_env_key_raises(files, env_path, key, value, sys) ==
    {files} \cup
    {[p \in DOMAIN files \cup {env_path} |-> IF p = env_path THEN data ELSE files[p]] :
        data \in linePrefixes(_upsert_env_key(files, env_path, key, value, sys)[env_path])}

\* a call that raises the OSError of the filesystem
raiseOSError(op, m, args) == last' = call(op, m, args, None, "OSError")

\* load, get or list when the secrets file cannot be read
readRaises(op, m, args) ==
    /\ ~notInitialised(mgr[m])
    /\ raiseOSError(op, m, args)
    /\ UNCHANGED <<system, linkFile, secFile, secDirs, environ, mgr, frame>>

\* EnvSecretsManager.set when _write_secrets raises: os.environ[key] = value
\* is not reached
setRaises(m, key, value, fault) ==
    /\ ~notInitialised(mgr[m])
    /\ LET self == mgr[m]
           path == self.secrets_path[1]
           secrets == DictSet(readSecrets(secFile, path), key, value)
       IN  secFile' \in _write_secrets_raises(secFile, path, secrets, self.project_dir,
                                              self.env_secrets_id[1], system, fault)
    /\ raiseOSError("set", m, <<key, value>>)
    /\ UNCHANGED <<system, linkFile, secDirs, environ, mgr, frame>>

\* EnvSecretsManager.delete of a key the file holds when _write_secrets
\* raises: os.environ.pop(key, None) is not reached
deleteRaises(m, key, fault) ==
    /\ ~notInitialised(mgr[m])
    /\ LET self == mgr[m]
           path == self.secrets_path[1]
           secrets == readSecrets(secFile, path)
       IN  /\ DictHas(secrets, key)
           /\ secFile' \in _write_secrets_raises(secFile, path, DictDel(secrets, key),
                                                 self.project_dir, self.env_secrets_id[1],
                                                 system, fault)
    /\ raiseOSError("delete", m, <<key>>)
    /\ UNCHANGED <<system, linkFile, secDirs, environ, mgr, frame>>

\* EnvSecretsManager.clear when _write_secrets raises: the keys of the file
\* have been popped from os.environ before the call of _write_secrets
clearRaises(m, fault) ==
    /\ ~notInitialised(mgr[m])
    /\ LET self == mgr[m]
           path == self.secrets_path[1]
           secrets == readSecrets(secFile, path)
       IN  /\ environ' = environPop(environ, DictKeys(secrets))
           /\ secFile' \in _write_secrets_raises(secFile, path, << >>, self.project_dir,
                                                 self.env_secrets_id[1], system, fault)
    /\ raiseOSError("clear", m, << >>)
    /\ UNCHANGED <<system, linkFile, secDirs, mgr, frame>>

\* the steps of init that call the filesystem
InitSteps == {"read_env", "upsert", "mkdir", "write", "load"}

\* EnvSecretsManager.init when the filesystem call of step raises: the
\* assignments and the writes that come before that call in init have been made
initRaises(m, new_uuid, step, fault) ==
    LET self == mgr[m]
        env_vars == _read_dotenv(linkFile, self.project_dir)
        found == DictHas(env_vars, ENV_SECRETS_ID_KEY)
        id == resolvedId(m, new_uuid)
        upserted == IF found THEN linkFile
                    ELSE _upsert_env_key(linkFile, self.project_dir, ENV_SECRETS_ID_KEY, id, system)
    IN  /\ raiseOSError("init", m, << >>)
        /\ UNCHANGED <<system, environ, frame>>
        /\ CASE step = "read_env" ->
                  /\ self.project_dir \in DOMAIN linkFile
                  /\ UNCHANGED <<linkFile, secFile, secDirs, mgr>>
             [] step = "upsert" ->
                  /\ ~found
                  /\ linkFile' \in _upsert_env_key_raises(linkFile, self.project_dir,
                                                          ENV_SECRETS_ID_KEY, id, system)
                  /\ mgr' = [mgr EXCEPT ![m].env_secrets_id = Some(id)]
                  /\ UNCHANGED <<secFile, secDirs>>
             [] step = "mkdir" ->
                  /\ secretsDir(id) \notin secDirs
                  /\ linkFile' = upserted
                  /\ mgr' = [mgr EXCEPT ![m].env_secrets_id = Some(id)]
                  /\ UNCHANGED <<secFile, secDirs>>
             [] step = "write" ->
                  /\ secretsDir(id) \notin DOMAIN secFile
                  /\ linkFile' = upserted
                  /\ secDirs' = secDirs \cup {secretsDir(id)}
                  /\ mgr' = [mgr EXCEPT ![m].env_secrets_id = Some(id), ![m].secrets_path = Some(secretsDir(id))]
                  /\ secFile' \in _write_secrets_raises(secFile, secretsDir(id), << >>, self.project_dir,
                                                        id, system, fault)
             [] step = "load" ->
                  /\ linkFile' = upserted
                  /\ secDirs' = secDirs \cup {secretsDir(id)}
                  /\ mgr' = [mgr EXCEPT ![m].env_secrets_id = Some(id), ![m].secrets_path = Some(secretsDir(id))]
                  /\ secFile' = secFileAfterInit(m, id)

\* ------------------------------------------------ calls that interleave
\* set as the steps between which another thread or process can run: the
\* read of the file, open(path, "w"), and the write of the text when the file
\* is closed.  Nothing in manager.py locks the file.

\* a faulty write: the file is opened for appending, so that the text goes
\* after what the file holds
overlay_appends(text, bytes) == bytes \o text

\* the bytes of a file that held bytes after text is written at its start:
\* open(path, "w") emptied the file when it was opened, and what another
\* writer has put into it since then stays beyond the end of text
overlay(text, bytes) == text \o SubSeq(bytes, Len(text) + 1, Len(bytes))

\* set up to "secrets[key] = value": the guard, the read of the file and the
\* update of the mapping that the call holds
setRead(m, key, value) ==
    /\ frame[m] = None
    /\ ~notInitialised(mgr[m])
    /\ frame' = [frame EXCEPT ![m] =
                    Some([pc |-> "read", key |-> key, value |-> value,
                          secrets |-> DictSet(readSecrets(secFile, mgr[m].secrets_path[1]),
                                              key, value)])]
    /\ UNCHANGED <<system, linkFile, secFile, secDirs, environ, mgr, last>>

\* set, in _write_secrets: open(path, "w") empties the file
setOpen(m) ==
    /\ frame[m] # None
    /\ frame[m][1].pc = "read"
    /\ LET path == mgr[m].secrets_path[1]
       IN  secFile' = [p \in DOMAIN secFile \cup {path} |->
                          IF p = path
                          THEN [data |-> << >>, mode |-> modeAfterOpen(secFile, path)]
                          ELSE secFile[p]]
    /\ frame' = [frame EXCEPT ![m] = Some([frame[m][1] EXCEPT !.pc = "opened"])]
    /\ UNCHANGED <<system, linkFile, secDirs, environ, mgr, last>>

\* set, from the end of the with block of _write_secrets: the text is written
\* at the start of the file, chmod, os.environ[key] = value, return
setClose(m) ==
    /\ frame[m] # None
    /\ frame[m][1].pc = "opened"
    /\ LET self == mgr[m]
           path == self.secrets_path[1]
           text == writeText(secretsText(frame[m][1].secrets, self.project_dir,
                                         self.env_secrets_id[1]), system)
       IN  secFile' = [p \in DOMAIN secFile \cup {path} |->
                          IF p = path
                          THEN [data |-> overlay(text, IF path \in DOMAIN secFile
                                                       THEN secFile[path].data ELSE << >>),
                                mode |-> modeAfterWrite(secFile, path, system)]
                          ELSE secFile[p]]
    /\ environ' = environSet(environ, frame[m][1].key, frame[m][1].value)
    /\ last' = call("set", m, <<frame[m][1].key, frame[m][1].value>>, None, "none")
    /\ frame' = [frame EXCEPT ![m] = None]
    /\ UNCHANGED <<system, linkFile, secDirs, mgr>>

\* init of a project that has no identifier yet, as the steps between which
\* another thread or process can run: the read of the .env file and the
\* choice of the identifier; in _upsert_env_key the read of the lines,
\* open(env_path, "w") and the write of the lines when the file is closed;
\* then the rest of init.

\* init up to the call of _upsert_env_key; an init that finds an identifier
\* writes nothing to the .env file and is one step
initRead(m, new_uuid) ==
    /\ frame[m] = None
    /\ mgr[m].env_secrets_id = None
    /\ IF DictHas(_read_dotenv(linkFile, mgr[m].project_dir), ENV_SECRETS_ID_KEY)
       THEN init(m, new_uuid)
       ELSE /\ mgr' = [mgr EXCEPT ![m].env_secrets_id = Some(new_uuid)]
            /\ frame' = [frame EXCEPT ![m] = Some([pc |-> "generated", lines |-> << >>])]
            /\ UNCHANGED <<system, linkFile, secFile, secDirs, environ, last>>

\* _upsert_env_key up to "if not replaced": the lines it will write
upsertRead(m) ==
    /\ frame[m] # None
    /\ frame[m][1].pc = "generated"
    /\ LET env_path == mgr[m].project_dir
           old == IF env_path \in DOMAIN linkFile
                  THEN readlines(readText(linkFile[env_path])) ELSE << >>
       IN  frame' = [frame EXCEPT ![m] =
                        Some([pc |-> "read",
                              lines |-> upsertLines(old, ENV_SECRETS_ID_KEY,
                                                    mgr[m].env_secrets_id[1])])]
    /\ UNCHANGED <<system, linkFile, secFile, secDirs, environ, mgr, last>>

\* _upsert_env_key: open(env_path, "w") empties the file
upsertOpen(m) ==
    /\ frame[m] # None
    /\ frame[m][1].pc = "read"
    /\ linkFile' = [p \in DOMAIN linkFile \cup {mgr[m].project_dir} |->
                       IF p = mgr[m].project_dir THEN << >> ELSE linkFile[p]]
    /\ frame' = [frame EXCEPT ![m] = Some([frame[m][1] EXCEPT !.pc = "opened"])]
    /\ UNCHANGED <<system, secFile, secDirs, environ, mgr, last>>

\* _upsert_env_key, the end of the with block: the lines are written at the
\* start of the file
upsertClose(m) ==
    /\ frame[m] # None
    /\ frame[m][1].pc = "opened"
    /\ linkFile' = [p \in DOMAIN linkFile \cup {mgr[m].project_dir} |->
                       IF p = mgr[m].project_dir
                       THEN overlay(writeText(Concat(frame[m][1].lines), system),
                                    IF p \in DOMAIN linkFile THEN linkFile[p] ELSE << >>)
                       ELSE linkFile[p]]
    /\ frame' = [frame EXCEPT ![m] = Some([frame[m][1] EXCEPT !.pc = "written"])]
    /\ UNCHANGED <<system, secFile, secDirs, environ, mgr, last>>

\* init from "secrets_dir = ..." to its return
initFinish(m) ==
    /\ frame[m] # None
    /\ frame[m][1].pc = "written"
    /\ LET id == mgr[m].env_secrets_id[1]
           fs == secFileAfterInit(m, id)
       IN  /\ secDirs' = secDirs \cup {secretsDir(id)}
           /\ secFile' = fs
           /\ mgr' = [mgr EXCEPT ![m].secrets_path = Some(secretsDir(id))]
           /\ environ' = environAfterLoad(environ, readSecrets(fs, secretsDir(id)))
           /\ last' = call("init", m, << >>, id, "none")
    /\ frame' = [frame EXCEPT ![m] = None]
    /\ UNCHANGED <<system, linkFile>>

\* ------------------------------------------------------------ bounds

\* how many of AllValues the calls draw their values from
NumValues == 5

\* how many lines a secrets file may hold when the user appends one more
MaxFileLines == 7

\* how many lines the secrets file may hold when a racing call of set starts
MaxRaceLines == 7

\* -------------------------------------------------------- the inputs

P1 == <<"/work/app">>

Keys == {<<"K">>, <<"J">>}

AllValues ==
    << <<"v1">>,
       <<"hello", SP, "world">>,
       <<"host", EQ, "localhost;port", EQ, "5432">>,
       <<"line1", LF, "line2">>,
       <<"a", SP, "b", LF, "c">>,
       <<"v2">> >>

Values == {AllValues[i] : i \in 1..NumValues}

\* what other code of the process writes to the environment
OtherValues == {<<"other">>}

\* the lines a user appends by hand: a second line for a key, and a line with
\* the export prefix and a quoted value
HandLines ==
    { <<"K", EQ, "dup", LF>>,
      <<"export", SP, "J", EQ, SQ, "s", SP, "t", SQ, LF>> }

fileLines(id) == Len(readlines(readText(secFile[id].data)))

\* --------------------------------------------------- specification
\* Spec: one manager on a Linux host, in a project that has no .env file yet;
\* the calls range over Keys and Values, the user edits the secrets file and
\* other code writes the environment.

Init ==
    /\ system = "Linux"
    /\ linkFile = << >>
    /\ secFile = << >>
    /\ secDirs = {}
    /\ environ = << >>
    /\ mgr = [m \in {"m1"} |-> newManager(P1)]
    /\ frame = [m \in DOMAIN mgr |-> None]
    /\ last = call("construct", None, << >>, None, "none")

Next ==
    \/ \E m \in DOMAIN mgr : init(m, <<"u1">>)
    \/ \E m \in DOMAIN mgr : load(m)
    \/ \E m \in DOMAIN mgr : \E k \in Keys : \E v \in Values : set(m, k, v)
    \/ \E m \in DOMAIN mgr : \E k \in Keys : get(m, k)
    \/ \E m \in DOMAIN mgr : \E k \in Keys : delete(m, k)
    \/ \E m \in DOMAIN mgr : clear(m)
    \/ \E m \in DOMAIN mgr : list(m)
    \/ \E m \in DOMAIN mgr : info(m)
    \/ \E id \in DOMAIN secFile : \E line \in HandLines :
          fileLines(id) < MaxFileLines /\ handEdit(id, line)
    \/ \E k \in Keys : \E v \in OtherValues : otherSetenv(k, v)
    \/ \E k \in Keys : otherUnsetenv(k)

Spec == Init /\ [][Next]_vars

\* ------------------------------------------- specification: life cycle
\* SpecLifecycle: two managers built for the same project directory, on each
\* kind of host and with each kind of .env file the project may start with.

P2 == <<"/work/api">>

Systems == {"Linux", "Darwin", "Windows", "FreeBSD"}

\* the .env files a project starts with, as bytes
InitialEnvFiles ==
    { <<HASH, SP, "settings", LF, LF, "EXISTING_VAR", EQ, "hello", LF>>,
      <<"EXISTING_VAR", EQ, "hello", CR, LF>>,
      <<"DEBUG", EQ, "1">>,
      <<"export", SP, "ENV_SECRETS_ID", EQ, DQ, "u7", DQ, LF, "DEBUG", EQ, "1", LF>> }

InitLifecycle ==
    /\ system \in Systems
    /\ linkFile \in {<< >>} \cup {[p \in {P1} |-> bytes] : bytes \in InitialEnvFiles}
    /\ secFile = << >>
    /\ secDirs = {}
    /\ environ = << >>
    /\ mgr = [m \in {"m1", "m2"} |-> newManager(P1)]
    /\ frame = [m \in DOMAIN mgr |-> None]
    /\ last = call("construct", None, << >>, None, "none")

NextLifecycle ==
    \/ \E m \in DOMAIN mgr : \E u \in Uuids : init(m, u)
    \/ \E m \in DOMAIN mgr : load(m)
    \/ \E m \in DOMAIN mgr : set(m, <<"K">>, <<"hello", SP, "world">>)
    \/ \E m \in DOMAIN mgr : get(m, <<"K">>)
    \/ \E m \in DOMAIN mgr : delete(m, <<"K">>)
    \/ \E m \in DOMAIN mgr : clear(m)
    \/ \E m \in DOMAIN mgr : list(m)
    \/ \E m \in DOMAIN mgr : info(m)

SpecLifecycle == InitLifecycle /\ [][NextLifecycle]_vars

\* the same on a Linux host only
InitLifecycleLinux == InitLifecycle /\ system = "Linux"

SpecLifecycleLinux == InitLifecycleLinux /\ [][NextLifecycle]_vars

\* ------------------------------------------ specification: two projects
\* SpecShared: two managers of two projects in one process, which share
\* os.environ and nothing else.

SharedValues == {<<"v1">>, <<"v2">>}

InitShared ==
    /\ system = "Linux"
    /\ linkFile = << >>
    /\ secFile = << >>
    /\ secDirs = {}
    /\ environ = << >>
    /\ mgr = [m \in {"m1", "m2"} |-> newManager(IF m = "m1" THEN P1 ELSE P2)]
    /\ frame = [m \in DOMAIN mgr |-> None]
    /\ last = call("construct", None, << >>, None, "none")

NextShared ==
    \/ init("m1", <<"u1">>)
    \/ init("m2", <<"u2">>)
    \/ \E m \in DOMAIN mgr : load(m)
    \/ \E m \in DOMAIN mgr : \E k \in Keys : \E v \in SharedValues : set(m, k, v)
    \/ \E m \in DOMAIN mgr : \E k \in Keys : delete(m, k)
    \/ \E m \in DOMAIN mgr : clear(m)

SpecShared == InitShared /\ [][NextShared]_vars

\* ------------------------------------- specification: filesystem errors
\* SpecFaults: one manager on a Linux host, in a project that has a .env file
\* without an identifier; the calls may end in an OSError raised by the
\* filesystem.

FaultValues == {<<"v1">>, <<"hello", SP, "world">>}

InitFaults ==
    /\ system = "Linux"
    /\ linkFile = [p \in {P1} |-> <<"DEBUG", EQ, "1", LF>>]
    /\ secFile = << >>
    /\ secDirs = {}
    /\ environ = << >>
    /\ mgr = [m \in {"m1"} |-> newManager(P1)]
    /\ frame = [m \in DOMAIN mgr |-> None]
    /\ last = call("construct", None, << >>, None, "none")

NextFaults ==
    \/ \E m \in DOMAIN mgr : init(m, <<"u1">>)
    \/ \E m \in DOMAIN mgr : \E step \in InitSteps : \E fault \in WriteFaults :
          initRaises(m, <<"u1">>, step, fault)
    \/ \E m \in DOMAIN mgr : load(m)
    \/ \E m \in DOMAIN mgr : \E k \in Keys : \E v \in FaultValues : set(m, k, v)
    \/ \E m \in DOMAIN mgr : \E k \in Keys : \E v \in FaultValues : \E fault \in WriteFaults :
          setRaises(m, k, v, fault)
    \/ \E m \in DOMAIN mgr : \E k \in Keys : get(m, k)
    \/ \E m \in DOMAIN mgr : \E k \in Keys : delete(m, k)
    \/ \E m \in DOMAIN mgr : \E k \in Keys : \E fault \in WriteFaults : deleteRaises(m, k, fault)
    \/ \E m \in DOMAIN mgr : clear(m)
    \/ \E m \in DOMAIN mgr : \E fault \in WriteFaults : clearRaises(m, fault)
    \/ \E m \in DOMAIN mgr : list(m)
    \/ \E m \in DOMAIN mgr : readRaises("load", m, << >>)
    \/ \E m \in DOMAIN mgr : \E k \in Keys : readRaises("get", m, <<k>>)
    \/ \E m \in DOMAIN mgr : readRaises("list", m, << >>)

SpecFaults == InitFaults /\ [][NextFaults]_vars

\* ------------------------------------------------ specification: cli
\* SpecCli: the command line run for a project, between calls that a manager
\* of the same project makes in the process.

\* the argument lists of the subcommands
CliArgvs ==
    {<< >>, << <<"init">> >>, << <<"list">> >>, << <<"clear">> >>, << <<"info">> >>}
    \cup {<< <<"get">>, k >> : k \in Keys}
    \cup {<< <<"delete">>, k >> : k \in Keys}
    \cup {<< <<"set">>, k, v >> : k \in Keys, v \in SharedValues}

InitCli ==
    /\ system = "Linux"
    /\ linkFile = << >>
    /\ secFile = << >>
    /\ secDirs = {}
    /\ environ = << >>
    /\ mgr = [m \in {"m1", "cli"} |-> newManager(P1)]
    /\ frame = [m \in DOMAIN mgr |-> None]
    /\ last = call("construct", None, << >>, None, "none")

NextCli ==
    \/ init("m1", <<"u1">>)
    \/ \E k \in Keys : \E v \in SharedValues : set("m1", k, v)
    \/ \E k \in Keys : delete("m1", k)
    \/ \E argv \in CliArgvs : cli_main("cli", <<"u1">>, argv)

SpecCli == InitCli /\ [][NextCli]_vars

\* ------------------------------------- specification: racing writers
\* SpecRace: two managers of one project, in two threads of a process on a
\* Linux host, whose calls of set interleave.

\* the values of the racing calls, an atom for each character, so that a
\* position in the text after the header is a position in the file
RaceValues == {<<"1">>, <<"x", EQ, "y">>}

\* the secrets file of manager m is short enough for a racing call of set
raceRoom(m) ==
    /\ ~notInitialised(mgr[m])
    /\ fileLines(mgr[m].secrets_path[1]) < MaxRaceLines

InitRace ==
    /\ system = "Linux"
    /\ linkFile = << >>
    /\ secFile = << >>
    /\ secDirs = {}
    /\ environ = << >>
    /\ mgr = [m \in {"m1", "m2"} |-> newManager(P1)]
    /\ frame = [m \in DOMAIN mgr |-> None]
    /\ last = call("construct", None, << >>, None, "none")

NextRace ==
    \/ \E m \in DOMAIN mgr : init(m, <<"u1">>)
    \/ \E v \in RaceValues :
          raceRoom("m1") /\ setRead("m1", <<"K">>, v)
    \/ \E v \in RaceValues :
          raceRoom("m2") /\ setRead("m2", <<"J">>, v)
    \/ \E m \in DOMAIN mgr : setOpen(m)
    \/ \E m \in DOMAIN mgr : setClose(m)

SpecRace == InitRace /\ [][NextRace]_vars

\* ------------------------------------------- specification: quoting
\* SpecQuoting: one manager on a Linux host that stores values with each of
\* the characters the writer quotes for, and values with none of them.

QuoteValues ==
    { <<"v1">>,
      << >>,
      <<"a", SP, "b">>,
      <<"a", EQ, "b">>,
      <<HASH, "x">>,
      <<"it", SQ, "s">>,
      <<"a", DQ, "b">>,
      <<DQ>>,
      <<DQ, "a", DQ>>,
      <<"say", SP, DQ, "hi", DQ>>,
      <<"a", DQ, LF, "b">> }

InitQuoting ==
    /\ system = "Linux"
    /\ linkFile = << >>
    /\ secFile = << >>
    /\ secDirs = {}
    /\ environ = << >>
    /\ mgr = [m \in {"m1"} |-> newManager(P1)]
    /\ frame = [m \in DOMAIN mgr |-> None]
    /\ last = call("construct", None, << >>, None, "none")

NextQuoting ==
    \/ \E m \in DOMAIN mgr : init(m, <<"u1">>)
    \/ \E m \in DOMAIN mgr : \E k \in Keys : \E v \in QuoteValues : set(m, k, v)
    \/ \E m \in DOMAIN mgr : \E k \in Keys : get(m, k)
    \/ \E m \in DOMAIN mgr : \E k \in Keys : delete(m, k)
    \/ \E m \in DOMAIN mgr : clear(m)

SpecQuoting == InitQuoting /\ [][NextQuoting]_vars

\* ------------------------------------ specification: hand-edited files
\* SpecEdited: one manager on a Linux host, in a project whose .env file was
\* written by hand and holds an identifier (in one line or in several, with
\* or without "export" and quotes) or none; the user appends lines to the
\* secrets file, so that it holds several lines for a key.

EditedEnvFiles ==
    { <<"ENV_SECRETS_ID", EQ, "u7", LF, "DEBUG", EQ, "1", LF,
        "export", SP, "ENV_SECRETS_ID", EQ, DQ, "u8", DQ, LF>>,
      <<"export", SP, "ENV_SECRETS_ID", EQ, SQ, "u7", SQ, LF, "DEBUG", EQ, "1">>,
      <<SP, "ENV_SECRETS_ID", SP, EQ, SP, "u7">>,
      <<"DEBUG", EQ, "1", LF>> }

EditedValues == {<<"v1">>, <<"a", SP, "b">>}

InitEdited ==
    /\ system = "Linux"
    /\ linkFile \in {[p \in {P1} |-> bytes] : bytes \in EditedEnvFiles}
    /\ secFile = << >>
    /\ secDirs = {}
    /\ environ = << >>
    /\ mgr = [m \in {"m1"} |-> newManager(P1)]
    /\ frame = [m \in DOMAIN mgr |-> None]
    /\ last = call("construct", None, << >>, None, "none")

NextEdited ==
    \/ \E m \in DOMAIN mgr : init(m, <<"u1">>)
    \/ \E m \in DOMAIN mgr : load(m)
    \/ \E m \in DOMAIN mgr : \E k \in Keys : \E v \in EditedValues : set(m, k, v)
    \/ \E m \in DOMAIN mgr : \E k \in Keys : get(m, k)
    \/ \E m \in DOMAIN mgr : list(m)
    \/ \E id \in DOMAIN secFile : \E line \in HandLines :
          fileLines(id) < MaxFileLines /\ handEdit(id, line)

SpecEdited == InitEdited /\ [][NextEdited]_vars

\* --------------------------------- specification: identifiers by hand
\* SpecProjects: two managers of two projects in one process, each project
\* with a .env file that holds an identifier its user wrote; the identifiers
\* of the two projects differ.

ProjectEnvFiles ==
    [m1 |-> { <<"ENV_SECRETS_ID", EQ, "u1", LF>> },
     m2 |-> { <<"ENV_SECRETS_ID", EQ, "u2", LF>>,
              <<"ENV_SECRETS_ID", EQ, "u1", SLASH, LF>>,
              <<"ENV_SECRETS_ID", EQ, DOT, SLASH, "u1", LF>> }]

InitProjects ==
    /\ system = "Linux"
    /\ linkFile \in {[p \in {P1, P2} |-> IF p = P1 THEN b1 ELSE b2] :
                        b1 \in ProjectEnvFiles.m1, b2 \in ProjectEnvFiles.m2}
    /\ secFile = << >>
    /\ secDirs = {}
    /\ environ = << >>
    /\ mgr = [m \in {"m1", "m2"} |-> newManager(IF m = "m1" THEN P1 ELSE P2)]
    /\ frame = [m \in DOMAIN mgr |-> None]
    /\ last = call("construct", None, << >>, None, "none")

NextProjects ==
    \/ \E m \in DOMAIN mgr : \E u \in Uuids : init(m, u)
    \/ \E m \in DOMAIN mgr : load(m)
    \/ \E m \in DOMAIN mgr : \E k \in Keys : \E v \in SharedValues : set(m, k, v)
    \/ \E m \in DOMAIN mgr : \E k \in Keys : delete(m, k)
    \/ \E m \in DOMAIN mgr : clear(m)

SpecProjects == InitProjects /\ [][NextProjects]_vars

\* ------------------------------------- specification: racing first init
\* SpecRaceInit: two managers of one project directory that has no identifier
\* yet, each in its first init, whose steps interleave; uuid4() gives u1 to
\* one and u2 to the other. Every line of the .env files has the form and the
\* length of the identifier line (a name of 14 characters, '=', a value of 36
\* and a newline), so that an element of the text stands for the same number
\* of bytes wherever it is written.

RaceEnvLines ==
    << <<"DATABASE_TOKEN", EQ, "t1", LF>>, <<"SETTINGS_TOKEN", EQ, "t2", LF>> >>

InitRaceInit ==
    /\ system = "Linux"
    /\ linkFile \in {<< >>} \cup {[p \in {P1} |-> Concat(SubSeq(RaceEnvLines, 1, n))] : n \in 0..2}
    /\ secFile = << >>
    /\ secDirs = {}
    /\ environ = << >>
    /\ mgr = [m \in {"m1", "m2"} |-> newManager(P1)]
    /\ frame = [m \in DOMAIN mgr |-> None]
    /\ last = call("construct", None, << >>, None, "none")

NextRaceInit ==
    \/ initRead("m1", <<"u1">>)
    \/ initRead("m2", <<"u2">>)
    \/ \E m \in DOMAIN mgr : upsertRead(m)
    \/ \E m \in DOMAIN mgr : upsertOpen(m)
    \/ \E m \in DOMAIN mgr : upsertClose(m)
    \/ \E m \in DOMAIN mgr : initFinish(m)

SpecRaceInit == InitRaceInit /\ [][NextRaceInit]_vars

\* ------------------------------------------------------------ claims

\* the call the last step made was op, on an initialised manager, and it returned
returned(op) == last.op = op /\ last.raised = "none"

\* the secrets file of manager m, parsed, in the current state
secretsOf(m) == readSecrets(secFile, mgr[m].secrets_path[1])

\* the lines of a file's bytes that the parser reads as an entry for key
entryLines(bytes, key) ==
    LET lines == readlines(readText(bytes))
    IN  {i \in 1..Len(lines) : DictHas(parseLine(<< >>, lines[i]), key)}

\* every key of the parsed file is in os.environ with the file's value
environHolds(secrets) ==
    \A i \in 1..Len(secrets) :
        secrets[i][1] \in DOMAIN environ /\ environ[secrets[i][1]] = secrets[i][2]

\* C1: an init call returns the identifier every earlier init call for the same
\* project directory returned (the one an initialised manager of that directory
\* holds), and after the call the linking file has exactly one ENV_SECRETS_ID entry.
C1_IdentifierStability ==
    [][last'.op = "init" =>
          /\ \A n \in DOMAIN mgr :
                (mgr[n].project_dir = mgr[last'.m].project_dir /\ mgr[n].env_secrets_id # None)
                    => mgr[n].env_secrets_id = Some(last'.ret)
          /\ mgr[last'.m].project_dir \in DOMAIN linkFile'
          /\ Cardinality(entryLines(linkFile'[mgr[last'.m].project_dir], ENV_SECRETS_ID_KEY)) = 1
          /\ _read_dotenv(linkFile', mgr[last'.m].project_dir)
                = DictSet(_read_dotenv(linkFile, mgr[last'.m].project_dir),
                          ENV_SECRETS_ID_KEY, last'.ret)]_vars

\* a second manager of the directory has run init after the first, and both
\* hold the generated identifier
C1_Witness ==
    /\ last.op = "init" /\ last.m = "m2"
    /\ last.ret \in Uuids
    /\ mgr["m1"].env_secrets_id = Some(last.ret)
    /\ mgr["m2"].env_secrets_id = Some(last.ret)

\* C2: after set(key, value) with a value that holds none of space, '=', '#',
\* single quote, double quote, get(key) returns exactly value.
C2_RoundTripUnquoted ==
    (returned("set") /\ ~needsQuotes(last.args[2]))
        => DictGet(secretsOf(last.m), last.args[1]) = Some(last.args[2])

\* C3: after set(key, value) with a value that holds a space or an '=',
\* get(key) returns the identical string.
C3_RoundTripQuoted ==
    (returned("set") /\ (Contains(last.args[2], SP) \/ Contains(last.args[2], EQ)))
        => DictGet(secretsOf(last.m), last.args[1]) = Some(last.args[2])

\* C4 as stated: after a successful load, set or init on a manager, every key of
\* that manager's secrets file is in os.environ with the file's value.
C4_EnvironSyncAfterLoadSetInit ==
    (returned("load") \/ returned("set") \/ returned("init"))
        => environHolds(secretsOf(last.m))

\* C4, amended: after a successful load or init on a manager, every key of that
\* manager's secrets file is in os.environ with the file's value; after a
\* successful set(key, value), os.environ holds key with the value passed.
C4_EnvironSyncAfterLoadInit ==
    /\ (returned("load") \/ returned("init")) => environHolds(secretsOf(last.m))
    /\ returned("set") =>
          (last.args[1] \in DOMAIN environ /\ environ[last.args[1]] = last.args[2])

\* a load has put back the value of a file whose key another project's manager
\* had overwritten in os.environ
C4_Witness ==
    /\ returned("load") /\ last.m = "m1"
    /\ ~notInitialised(mgr["m2"])
    /\ \E k \in Keys :
          /\ DictHas(secretsOf("m1"), k) /\ DictHas(secretsOf("m2"), k)
          /\ DictGet(secretsOf("m1"), k) # DictGet(secretsOf("m2"), k)

\* the step is the call op on a manager that was initialised before it
stepOf(op) == last'.op = op /\ vars' # vars /\ ~notInitialised(mgr[last'.m])

\* C5: delete(key) of a key the secrets file holds returns true; the rewritten
\* file parses to the former entries without key, each other entry with its
\* value and in its place; key is not in os.environ; a get(key) finds nothing.
C5_DeletePresent ==
    [][(stepOf("delete") /\ DictHas(secretsOf(last'.m), last'.args[1])) =>
          /\ last'.ret = TRUE
          /\ ~DictHas(readSecrets(secFile', mgr[last'.m].secrets_path[1]), last'.args[1])
          /\ readSecrets(secFile', mgr[last'.m].secrets_path[1])
                = SelectSeq(secretsOf(last'.m), LAMBDA e : e[1] # last'.args[1])
          /\ Cardinality(entryLines(secFile'[mgr[last'.m].secrets_path[1]].data, last'.args[1])) = 0
          /\ last'.args[1] \notin DOMAIN environ'
          /\ DictGet(readSecrets(secFile', mgr[last'.m].secrets_path[1]), last'.args[1]) = None]_vars

\* a delete has returned true and left the other key's entry in the file
C5_Witness ==
    /\ returned("delete") /\ last.ret = TRUE
    /\ Len(secretsOf(last.m)) = 1
    /\ last.args[1] \notin DOMAIN environ

\* C6: delete(key) of a key the secrets file does not hold returns false and
\* writes nothing: the secrets files, the linking files and os.environ are the
\* same after the call, also when os.environ holds key.
C6_DeleteAbsent ==
    [][(stepOf("delete") /\ ~DictHas(secretsOf(last'.m), last'.args[1])) =>
          /\ last'.ret = FALSE
          /\ last'.raised = "none"
          /\ UNCHANGED <<secFile, secDirs, linkFile, environ, mgr>>]_vars

\* a delete has returned false for a key that os.environ holds
C6_Witness ==
    /\ returned("delete") /\ last.ret = FALSE
    /\ last.args[1] \in DOMAIN environ
    /\ Len(secretsOf(last.m)) = 1

\* C7: clear() returns the number of entries the secrets file held before the
\* call; afterwards list() returns the empty mapping and no key the file
\* defined is in os.environ.
C7_Clear ==
    [][stepOf("clear") =>
          /\ last'.ret = Len(secretsOf(last'.m))
          /\ last'.ret = Cardinality(DictKeys(secretsOf(last'.m)))
          /\ readSecrets(secFile', mgr[last'.m].secrets_path[1]) = << >>
          /\ \A k \in DictKeys(secretsOf(last'.m)) : k \notin DOMAIN environ']_vars

\* a clear has returned 2
C7_Witness == returned("clear") /\ last.ret = 2 /\ secretsOf(last.m) = << >>

\* C8: load, get, set, delete, clear and list on a manager on which init has
\* not run raise the not-initialised error and change no file, no directory,
\* nothing of os.environ and nothing of the manager.
C8_UninitialisedGuard ==
    [][(/\ last'.op \in {"load", "get", "set", "delete", "clear", "list"}
        /\ vars' # vars
        /\ notInitialised(mgr[last'.m])) =>
          /\ last'.raised = "RuntimeError"
          /\ UNCHANGED <<linkFile, secFile, secDirs, environ, mgr>>
          /\ notInitialised(mgr'[last'.m])]_vars

\* a set has raised on one manager after the other manager of the project
\* created the files and stored a secret
C8_Witness ==
    /\ last.op = "set" /\ last.raised = "RuntimeError"
    /\ \E n \in DOMAIN mgr : ~notInitialised(mgr[n]) /\ Len(secretsOf(n)) = 1
    /\ DOMAIN environ # {}

\* the bytes init appends to a .env file that has no identifier entry
appendedIdLine(old, id, sys) ==
    (IF old # << >> /\ old[Len(old)] # LF THEN linesep(sys) ELSE << >>)
    \o ENV_SECRETS_ID_KEY \o <<EQ>> \o id \o linesep(sys)

\* the bytes of the project's .env file, none if there is no file
envBytes(files, project_dir) == IF project_dir \in DOMAIN files THEN files[project_dir] ELSE << >>

\* C9: when init inserts the identifier into a linking file that has no
\* identifier entry, the file's former bytes are kept as they were and the one
\* ENV_SECRETS_ID line is appended, after a newline if the file was not empty
\* and did not end with one.
C9_LinkingFilePreserved ==
    [][(/\ last'.op = "init"
        /\ vars' # vars
        /\ ~DictHas(_read_dotenv(linkFile, mgr[last'.m].project_dir), ENV_SECRETS_ID_KEY)) =>
          envBytes(linkFile', mgr[last'.m].project_dir)
            = envBytes(linkFile, mgr[last'.m].project_dir)
              \o appendedIdLine(envBytes(linkFile, mgr[last'.m].project_dir), last'.ret, system)]_vars

\* C10: after a set, the secrets file holds exactly one line for each of its
\* keys, and get(key) returns the value just set.
C10_KeysUniqueLastWriteWins ==
    returned("set") =>
        /\ \A k \in DictKeys(secretsOf(last.m)) :
              Cardinality(entryLines(secFile[mgr[last.m].secrets_path[1]].data, k)) = 1
        /\ DictGet(secretsOf(last.m), last.args[1]) = Some(last.args[2])

\* the value that the last line of a file that is an entry for key gives it,
\* None when the file has no such line
lastEntryValue(bytes, key) ==
    LET lines == readlines(readText(bytes))
        at == entryLines(bytes, key)
    IN  IF at = {} THEN None
        ELSE DictGet(parseLine(<< >>, lines[CHOOSE i \in at : \A j \in at : j <= i]), key)

\* the bytes of the secrets file of manager m, none if there is no file
secretsBytes(fs, m) ==
    IF mgr[m].secrets_path[1] \in DOMAIN fs THEN fs[mgr[m].secrets_path[1]].data ELSE << >>

\* C11: get(key) and list() on an initialised manager return without raising
\* and leave the secrets files, the linking files, os.environ and the manager as
\* they were; get returns the value of the file's last entry line for key, or
\* None when the file has no entry line for key; list returns the file's parsed
\* mapping: one entry for each key that has an entry line, with that value.
C11_GetListReadOnly ==
    [][(stepOf("get") \/ stepOf("list")) =>
          /\ last'.raised = "none"
          /\ UNCHANGED <<secFile, secDirs, linkFile, environ, mgr>>
          /\ last'.op = "get" =>
                last'.ret = lastEntryValue(secretsBytes(secFile, last'.m), last'.args[1])
          /\ last'.op = "list" =>
                /\ last'.ret = secretsOf(last'.m)
                /\ \A i, j \in 1..Len(last'.ret) : last'.ret[i][1] = last'.ret[j][1] => i = j
                /\ \A k \in Keys \cup DictKeys(last'.ret) :
                      DictGet(last'.ret, k) = lastEntryValue(secretsBytes(secFile, last'.m), k)]_vars

\* a get has returned the value of a key that os.environ does not hold
C11_Witness ==
    /\ returned("get") /\ last.ret # None
    /\ last.args[1] \notin DOMAIN environ
    /\ DictHas(secretsOf(last.m), last.args[1])

\* C12: load() on an initialised manager returns the file's parsed mapping;
\* afterwards os.environ holds every parsed key with the file's value, also
\* where it held another value; every entry of os.environ whose key the file
\* does not hold is kept with its value, no entry is removed and no other key
\* is added; no file and nothing of the manager changes.
C12_LoadInjects ==
    [][stepOf("load") =>
          /\ last'.raised = "none"
          /\ last'.ret = secretsOf(last'.m)
          /\ \A k \in DictKeys(last'.ret) :
                /\ k \in DOMAIN environ'
                /\ Some(environ'[k]) = lastEntryValue(secretsBytes(secFile, last'.m), k)
          /\ DOMAIN environ' = DOMAIN environ \cup DictKeys(last'.ret)
          /\ \A k \in DOMAIN environ : ~DictHas(last'.ret, k) => environ'[k] = environ[k]
          /\ UNCHANGED <<secFile, secDirs, linkFile, mgr>>]_vars

\* a load has put a value appended by hand into os.environ, next to an entry
\* of os.environ that the file does not hold
C12_Witness ==
    /\ returned("load")
    /\ <<"K">> \in DOMAIN environ /\ environ[<<"K">>] = <<"dup">>
    /\ <<"J">> \in DOMAIN environ /\ ~DictHas(secretsOf(last.m), <<"J">>)

\* C13: an init call on a manager whose project already has an initialised
\* manager settles on that manager's identifier and secrets-file path; when the
\* linking file holds an identifier, init returns it and leaves the linking
\* file alone; a secrets file that exists is left as it is, byte for byte, and
\* one that does not exist is created empty with no other file touched; in each
\* case the mapping list() returns is the same before and after the call.
C13_InitIdempotent ==
    [][(last'.op = "init" /\ vars' # vars) =>
          /\ last'.raised = "none"
          /\ mgr'[last'.m].env_secrets_id = Some(last'.ret)
          /\ \A n \in DOMAIN mgr :
                (mgr[n].project_dir = mgr[last'.m].project_dir /\ ~notInitialised(mgr[n])) =>
                    /\ mgr'[last'.m].env_secrets_id = mgr[n].env_secrets_id
                    /\ mgr'[last'.m].secrets_path = mgr[n].secrets_path
                    /\ mgr'[n] = mgr[n] \/ n = last'.m
          /\ DictHas(_read_dotenv(linkFile, mgr[last'.m].project_dir), ENV_SECRETS_ID_KEY) =>
                /\ Some(last'.ret) = DictGet(_read_dotenv(linkFile, mgr[last'.m].project_dir),
                                              ENV_SECRETS_ID_KEY)
                /\ linkFile' = linkFile
          /\ mgr'[last'.m].secrets_path[1] \in DOMAIN secFile => secFile' = secFile
          /\ mgr'[last'.m].secrets_path[1] \notin DOMAIN secFile =>
                /\ DOMAIN secFile' = DOMAIN secFile \cup {mgr'[last'.m].secrets_path[1]}
                /\ \A p \in DOMAIN secFile : secFile'[p] = secFile[p]
          /\ readSecrets(secFile', mgr'[last'.m].secrets_path[1])
                = readSecrets(secFile, mgr'[last'.m].secrets_path[1])]_vars

\* a manager built anew for a project has run init while the project's secrets
\* file, written through the other manager, holds an entry
C13_Witness ==
    /\ returned("init") /\ last.m = "m2"
    /\ ~notInitialised(mgr["m1"])
    /\ mgr["m1"].secrets_path = mgr["m2"].secrets_path
    /\ Len(secretsOf("m2")) = 1

\* C14: when set, delete or clear ends in an OSError of the filesystem, the
\* secrets file holds the bytes it held before the call.
C14_NoPartialRewrite ==
    [][(last'.op \in {"set", "delete", "clear"} /\ last'.raised = "OSError") =>
          secretsBytes(secFile', last'.m) = secretsBytes(secFile, last'.m)]_vars

\* C18: when init ends in an OSError of the filesystem on a manager that was
\* not initialised, the manager is not initialised after the call either.
C18_FailedInitStaysUninitialised ==
    [][(/\ last'.op = "init" /\ last'.raised = "OSError"
        /\ notInitialised(mgr[last'.m])) =>
          notInitialised(mgr'[last'.m])]_vars

\* the hosts of Systems that are POSIX hosts
PosixSystems == {"Linux", "Darwin", "FreeBSD"}

\* the step is a call that returned after it rewrote its secrets file in full:
\* an init that found no file, a set, a delete of a key the file held, a clear
rewrote ==
    /\ last'.raised = "none"
    /\ \/ last'.op \in {"set", "clear"}
       \/ last'.op = "delete" /\ last'.ret = TRUE
       \/ last'.op = "init" /\ last'.ret \notin DOMAIN secFile

\* C15: on a POSIX host, after each call that rewrote the secrets file in
\* full, the mode of the file is 0600, owner read and write only.
C15_OwnerOnlyAfterRewrite ==
    [][(rewrote /\ system \in PosixSystems) =>
          secFile'[mgr'[last'.m].secrets_path[1]].mode = "0600"]_vars

\* C19 as stated: info() on a manager on which init has not run raises the
\* not-initialised error.
C19_InfoGuarded ==
    [][(last'.op = "info" /\ notInitialised(mgr[last'.m])) =>
          last'.raised = "RuntimeError"]_vars

\* C19, amended: info() on a manager on which init has not run does not raise:
\* it returns the summary with the project directory, whether the .env file
\* exists, no identifier, no secrets file, secrets_file_exists false and
\* secrets_count 0, and it changes no file, nothing of os.environ and nothing
\* of the manager.
C19_InfoUnguarded ==
    [][(last'.op = "info" /\ mgr[last'.m] = newManager(mgr[last'.m].project_dir)) =>
          /\ last'.raised = "none"
          /\ last'.ret = [project_dir |-> mgr[last'.m].project_dir,
                          env_file_exists |-> mgr[last'.m].project_dir \in DOMAIN linkFile,
                          env_secrets_id |-> None,
                          secrets_file |-> None,
                          secrets_file_exists |-> FALSE,
                          secrets_count |-> 0]
          /\ UNCHANGED <<linkFile, secFile, secDirs, environ, mgr>>]_vars

\* info has returned on a manager on which init has not run, in a project
\* whose other manager has stored a secret
C19_Witness ==
    /\ returned("info")
    /\ mgr[last.m] = newManager(mgr[last.m].project_dir)
    /\ last.ret.secrets_count = 0 /\ last.ret.env_file_exists
    /\ \E n \in DOMAIN mgr : ~notInitialised(mgr[n]) /\ Len(secretsOf(n)) = 1

\* the entry <<key, value>> that a line appended by hand stands for
handEntry(line) == parseLine(<< >>, line)[1]

\* C20: the call that follows an edit of the secrets file by hand works on the
\* edited file: get of the edited key returns the edited value, and get of any
\* key the value of the file's last entry line for it; list holds the edited
\* entry; a set of another key keeps the edited entry in the rewritten file;
\* delete returns whether the edited file has an entry for the key; clear
\* returns the number of keys of the edited file.
C20_NoCaching ==
    [][(/\ last.op = "hand_edit"
        /\ last'.op \in {"get", "list", "set", "delete", "clear"}
        /\ last'.raised = "none") =>
          /\ last'.op = "get" =>
                /\ last'.ret = lastEntryValue(secretsBytes(secFile, last'.m), last'.args[1])
                /\ last'.args[1] = handEntry(last.args[2])[1] =>
                      last'.ret = Some(handEntry(last.args[2])[2])
          /\ last'.op = "list" =>
                DictGet(last'.ret, handEntry(last.args[2])[1]) = Some(handEntry(last.args[2])[2])
          /\ (last'.op = "set" /\ last'.args[1] # handEntry(last.args[2])[1]) =>
                DictGet(readSecrets(secFile', mgr[last'.m].secrets_path[1]),
                        handEntry(last.args[2])[1]) = Some(handEntry(last.args[2])[2])
          /\ last'.op = "delete" =>
                /\ last'.ret = (entryLines(secretsBytes(secFile, last'.m), last'.args[1]) # {})
                /\ last'.args[1] = handEntry(last.args[2])[1] => last'.ret = TRUE
          /\ last'.op = "clear" =>
                last'.ret = Cardinality({k \in Keys : entryLines(secretsBytes(secFile, last'.m), k) # {}})]_vars

\* a get has returned the value of a line appended by hand while the file
\* still holds the line that the manager wrote for the key earlier, and
\* os.environ the value of that line
C20_Witness ==
    /\ returned("get") /\ last.args[1] = <<"K">> /\ last.ret = Some(<<"dup">>)
    /\ Cardinality(entryLines(secretsBytes(secFile, last.m), <<"K">>)) = 2
    /\ <<"K">> \in DOMAIN environ /\ environ[<<"K">>] = <<"v1">>

\* the parsed secrets file of the project of manager slot m, empty when the
\* project has no identifier or no secrets file yet
projectSecrets(m) ==
    LET env_vars == _read_dotenv(linkFile, mgr[m].project_dir)
    IN  IF DictHas(env_vars, ENV_SECRETS_ID_KEY)
        THEN readSecrets(secFile, DictGet(env_vars, ENV_SECRETS_ID_KEY)[1])
        ELSE << >>

\* C16: a run of the command line with a subcommand ends with exit status 0,
\* but for get and delete of a key that the project's secrets file does not
\* hold, which end with exit status 1.
C16_CliExitCodes ==
    [][(last'.op = "cli" /\ last'.args # << >>) =>
          exitStatus(last') =
              IF /\ last'.args[1] \in {<<"get">>, <<"delete">>}
                 /\ ~DictHas(projectSecrets(last'.m), last'.args[2])
              THEN 1 ELSE 0]_vars

\* the step is the last step of a call of set
closes == last'.op = "set" /\ frame[last'.m] # None /\ frame'[last'.m] = None

\* the text that the call of set in progress on manager m writes
textOf(m) ==
    writeText(secretsText(frame[m][1].secrets, mgr[m].project_dir, mgr[m].env_secrets_id[1]),
              system)

C17_WitnessOverlapped ==
    /\ \A n \in DOMAIN mgr : frame[n] = None
    /\ returned("set")
    /\ \E k \in DictKeys(readSecrets(secFile, mgr[last.m].secrets_path[1])) : k \notin Keys

\* what get(key) returns once _write_secrets has written the one entry
\* key=value on this host and _read_dotenv has read the file
roundTrip(key, value) ==
    DictGet(parseBytes(writeText(secretsText(<< <<key, value>> >>, P1, <<"u1">>), system)), key)

\* value with its double quotes taken out
withoutDQ(value) == SelectSeq(value, LAMBDA ch : ch # DQ)

\* C21 as stated: there is a value with a double quote that set followed by
\* get does not give back because of the double quote, that is, while the
\* same value without its double quotes is given back.
C21_DoubleQuoteBreaksRoundTrip ==
    \E k \in Keys : \E v \in QuoteValues :
        /\ Contains(v, DQ)
        /\ roundTrip(k, v) # Some(v)
        /\ roundTrip(k, withoutDQ(v)) = Some(withoutDQ(v))

\* C21, amended: after set(key, value) with a value that holds a double quote
\* and no line break, get(key) returns exactly value; a value with a double
\* quote that is not given back is one that is not given back without its
\* double quotes either.
C21_DoubleQuoteRoundTrips ==
    /\ (returned("set") /\ Contains(last.args[2], DQ)
           /\ ~Contains(last.args[2], LF) /\ ~Contains(last.args[2], CR))
          => DictGet(secretsOf(last.m), last.args[1]) = Some(last.args[2])
    /\ (returned("set") /\ Contains(last.args[2], DQ)
           /\ DictGet(secretsOf(last.m), last.args[1]) # Some(last.args[2]))
          => roundTrip(last.args[1], withoutDQ(last.args[2])) # Some(withoutDQ(last.args[2]))

\* a set of a value that is a lone double quote has returned, next to an
\* entry whose value has a double quote inside, and the file gives both back
C21_Witness ==
    /\ returned("set") /\ last.args[2] = <<DQ>>
    /\ Len(secretsOf(last.m)) = 2
    /\ DictGet(secretsOf(last.m), last.args[1]) = Some(<<DQ>>)
    /\ \E k \in Keys : DictGet(secretsOf(last.m), k) = Some(<<"a", DQ, "b">>)

\* the characters of the quoting rule
QuotingCharacters == {SP, EQ, HASH, SQ, DQ}

\* the text of an entry as the quoting rule gives it: the value between
\* double quotes if it holds one of the characters, the value as it is if not
ruleEntry(key, value) ==
    key \o <<EQ>>
    \o (IF \E i \in 1..Len(value) : value[i] \in QuotingCharacters
        THEN <<DQ>> \o value \o <<DQ>> ELSE value)
    \o <<LF>>

\* the bytes of a secrets file after its header, none if the file is not there
afterHeader(fs, m) ==
    LET bytes == secretsBytes(fs, m)
        h == header(mgr[m].project_dir, mgr[m].env_secrets_id[1])
    IN  SubSeq(bytes, Len(h) + 1, Len(bytes))

\* C22: after a set, or a delete that found its key, on a Linux host the
\* secrets file holds, after its header, one text for each entry of the mapping
\* the call wrote (the entries the file had, with the key set to the value or
\* without the key), in order: KEY= followed by the value between double quotes
\* when the value holds a space, '=', '#', a single or a double quote, and by
\* the value as it is when it holds none of them.
C22_QuotingRule ==
    [][(last'.raised = "none" /\ (last'.op = "set" \/ (last'.op = "delete" /\ last'.ret = TRUE))) =>
          \A before \in {secretsOf(last'.m)} :
          \A written \in {IF last'.op = "set"
                          THEN DictSet(before, last'.args[1], last'.args[2])
                          ELSE DictDel(before, last'.args[1])} :
              afterHeader(secFile', last'.m)
                = Concat([i \in 1..Len(written) |-> ruleEntry(written[i][1], written[i][2])])]_vars

\* a set has written a value with '#' between double quotes, after an entry
\* whose value is written as it is
C22_Witness ==
    /\ returned("set") /\ last.args[2] = <<HASH, "x">>
    /\ afterHeader(secFile, last.m)
          = <<"K", EQ, "v1", LF>> \o <<"J", EQ, DQ, HASH, "x", DQ, LF>>

\* the file's bytes hold several entry lines for key
severalLines(bytes, key) == Cardinality(entryLines(bytes, key)) >= 2

\* the number of entries a parsed mapping holds for key
entriesFor(secrets, key) == Cardinality({i \in 1..Len(secrets) : secrets[i][1] = key})

\* C23: when a file holds several entry lines for a key, the parsed mapping
\* holds one entry for the key, with the value of the last of these lines;
\* get returns that value, the mappings that list and load return hold it,
\* load leaves it in os.environ, and init takes the identifier from the last
\* ENV_SECRETS_ID line of the linking file.
C23_LastOccurrenceWins ==
    /\ \A m \in DOMAIN mgr : \A k \in Keys :
          (~notInitialised(mgr[m]) /\ severalLines(secretsBytes(secFile, m), k)) =>
             /\ entriesFor(secretsOf(m), k) = 1
             /\ DictGet(secretsOf(m), k) = lastEntryValue(secretsBytes(secFile, m), k)
             /\ (returned("get") /\ last.m = m /\ last.args[1] = k) =>
                   last.ret = lastEntryValue(secretsBytes(secFile, m), k)
             /\ ((returned("list") \/ returned("load")) /\ last.m = m) =>
                   /\ entriesFor(last.ret, k) = 1
                   /\ DictGet(last.ret, k) = lastEntryValue(secretsBytes(secFile, m), k)
             /\ ((returned("load") \/ returned("init")) /\ last.m = m) =>
                   /\ k \in DOMAIN environ
                   /\ Some(environ[k]) = lastEntryValue(secretsBytes(secFile, m), k)
    /\ (returned("init") /\ severalLines(envBytes(linkFile, mgr[last.m].project_dir), ENV_SECRETS_ID_KEY)) =>
          /\ Some(last.ret) = lastEntryValue(envBytes(linkFile, mgr[last.m].project_dir), ENV_SECRETS_ID_KEY)
          /\ mgr[last.m].env_secrets_id = Some(last.ret)
          /\ entriesFor(_read_dotenv(linkFile, mgr[last.m].project_dir), ENV_SECRETS_ID_KEY) = 1

\* init has taken the identifier u8 of the second ENV_SECRETS_ID line, and a
\* later init has loaded the value of the last of the lines for K
C23_Witness ==
    /\ returned("init") /\ last.ret = <<"u8">>
    /\ severalLines(envBytes(linkFile, P1), ENV_SECRETS_ID_KEY)
    /\ severalLines(secretsBytes(secFile, last.m), <<"K">>)
    /\ <<"K">> \in DOMAIN environ /\ environ[<<"K">>] = <<"dup">>


\* C24: an init that finds an identifier entry in the linking file (written
\* with or without "export", quotes and spaces, in one line or in several)
\* returns the value the parser reads for it, keeps it as the manager's
\* identifier and leaves the linking file with the bytes it had.
C24_LinkingFileUntouched ==
    [][(/\ last'.op = "init" /\ last'.raised = "none"
        /\ entryLines(envBytes(linkFile, mgr[last'.m].project_dir), ENV_SECRETS_ID_KEY) # {}) =>
          /\ Some(last'.ret) = lastEntryValue(envBytes(linkFile, mgr[last'.m].project_dir), ENV_SECRETS_ID_KEY)
          /\ mgr'[last'.m].env_secrets_id = Some(last'.ret)
          /\ linkFile' = linkFile]_vars

\* init has returned u7 from a line with "export" and single quotes, and the
\* linking file, which does not end with a newline, is as it was written
C24_Witness ==
    /\ returned("init") /\ last.ret = <<"u7">>
    /\ envBytes(linkFile, P1)
          = <<"export", SP, "ENV_SECRETS_ID", EQ, SQ, "u7", SQ, LF, "DEBUG", EQ, "1">>
    /\ mgr[last.m].env_secrets_id = Some(<<"u7">>)


\* C25: a set, delete or clear that ends with the OSError of its rewrite of
\* the secrets file leaves os.environ as it was before the call.
C25_FailedRewriteKeepsEnviron ==
    [][(last'.op \in {"set", "delete", "clear"} /\ last'.raised = "OSError") =>
          environ' = environ]_vars


\* os.environ before and after a step holds the same entries but for key
sameBut(key) ==
    /\ DOMAIN environ' \ {key} = DOMAIN environ \ {key}
    /\ \A k \in DOMAIN environ \ {key} : environ'[k] = environ[k]

\* C26: set(key, value) leaves key with value in os.environ and every other
\* entry as it was; a delete(key) that returns true leaves os.environ without
\* key and every other entry as it was; a delete that returns false leaves
\* os.environ as it was. The other entries are those of the file's other keys
\* and those another manager of the process has set.
C26_OneEnvironEntry ==
    [][/\ (last'.op = "set" /\ last'.raised = "none") =>
             /\ sameBut(last'.args[1])
             /\ last'.args[1] \in DOMAIN environ'
             /\ environ'[last'.args[1]] = last'.args[2]
       /\ (last'.op = "delete" /\ last'.raised = "none" /\ last'.ret = TRUE) =>
             /\ sameBut(last'.args[1])
             /\ last'.args[1] \notin DOMAIN environ'
       /\ (last'.op = "delete" /\ last'.raised = "none" /\ last'.ret = FALSE) =>
             environ' = environ]_vars

\* m1 has set J while os.environ holds for K the value that m2 has set, which
\* is not the value of K in the file of m1
C26_Witness ==
    /\ returned("set") /\ last.m = "m1" /\ last.args[1] = <<"J">>
    /\ DictGet(secretsOf("m1"), <<"K">>) = Some(<<"v1">>)
    /\ ~notInitialised(mgr["m2"])
    /\ DictGet(secretsOf("m2"), <<"K">>) = Some(<<"v2">>)
    /\ <<"K">> \in DOMAIN environ /\ environ[<<"K">>] = <<"v2">>
    /\ <<"J">> \in DOMAIN environ /\ environ[<<"J">>] = last.args[2]


\* the files of the project of manager m: whether its linking file is there
\* and the bytes it holds; whether the file at its secrets path is there and
\* its bytes and mode (nothing for a manager that has no secrets path yet)
filesOf(links, fs, m) ==
    <<mgr[m].project_dir \in DOMAIN links,
      envBytes(links, mgr[m].project_dir),
      IF mgr[m].secrets_path # None /\ mgr[m].secrets_path[1] \in DOMAIN fs
      THEN Some(fs[mgr[m].secrets_path[1]]) ELSE None>>

\* C28: a call of init, load, set, delete or clear on the manager of one
\* project leaves the linking file and the secrets file of the other project,
\* whose identifier is another one, as they were: the same files are there,
\* with the same bytes and the same mode.
C28_ProjectsIsolated ==
    [][\A m \in DOMAIN mgr : \A other \in DOMAIN mgr \ {m} :
          (/\ last'.op \in {"init", "load", "set", "delete", "clear"}
           /\ last'.m = m
           /\ mgr[m].project_dir # mgr[other].project_dir
           /\ mgr'[m].env_secrets_id # mgr[other].env_secrets_id) =>
             /\ filesOf(linkFile', secFile', other) = filesOf(linkFile, secFile, other)
             /\ mgr'[other] = mgr[other]]_vars

\* the ENV_SECRETS_ID lines of the project's linking file
idLines == entryLines(envBytes(linkFile, P1), ENV_SECRETS_ID_KEY)

\* both managers have returned from their first init
bothInitialised == \A m \in DOMAIN mgr : frame[m] = None /\ ~notInitialised(mgr[m])

C27_WitnessOverlapped ==
    /\ bothInitialised
    /\ envBytes(linkFile, P1)
          = <<"ENV_SECRETS_ID", EQ, "u1", LF, "ENV_SECRETS_ID", EQ, "u2", LF>>

====
